---- MODULE Spec2Model ----
(***************************************************************************)
(* createReducer (src/src/createReducer.ts): a reducer built from an       *)
(* initial state and a map "action type -> case reducer".  Every call      *)
(* runs the looked-up case reducer inside immer's produce()                *)
(* (createNextState), on a draft of the current state.                     *)
(*                                                                         *)
(* Objects live in a heap so that reference identity (===), structural     *)
(* sharing and in-place mutation are all observable.  A state is a root    *)
(* object {count, item}; item is null or a reference to a leaf object {v}. *)
(***************************************************************************)
EXTENDS Integers, Sequences, FiniteSets, TLC

VARIABLES heap, actionsMap, call, snap

vars == <<heap, actionsMap, call, snap>>

(* ------------------------------ bounds --------------------------------- *)

\* number of objects the heap may hold
MaxHeap == 4
\* largest number stored in a field or carried as an action's payload
MaxCount == 1

(* ------------------------------ values --------------------------------- *)

\* the null reference (the heap's addresses start at 1)
Null == 0

\* JavaScript's undefined, an object reference, a primitive string
Undef == [t |-> "undefined"]
Ref(a) == [t |-> "ref", a |-> a]
Str(s) == [t |-> "str", s |-> s]

\* a case reducer's "return draft"
DraftRet == [t |-> "draft"]
\* a case reducer's "return {count: c, item: null}": a fresh object
NewRet(c) == [t |-> "new", count |-> c, item |-> Null]

Root(c, i) == [kind |-> "root", count |-> c, item |-> i]
Leaf(n) == [kind |-> "leaf", v |-> n]

\* the address of the initial state passed to createReducer
initialState == 1

\* an action without a type field reads action.type as undefined
NoType == "<no type>"

\* the case reducers the model registers
Handlers == {"inc", "set", "nest", "reset", "mutRet", "fail"}

\* keys every object literal inherits from Object.prototype
ProtoKeys == {"toString", "constructor", "hasOwnProperty"}

\* the action types dispatched
Types == Handlers \cup ProtoKeys \cup {"undefined", "other", NoType}

Actions == [type : Types, payload : 0..MaxCount]

\* the handler maps createReducer is built with: every case reducer under
\* its own name, with or without an own key "undefined" and an own key
\* "toString"
ActionMaps ==
  { [k \in Handlers \cup extra |-> IF k \in Handlers THEN k ELSE "set"] :
      extra \in SUBSET {"undefined", "toString"} }

\* the value of a state, by contents (what a deep-equality test compares)
Deep(h, a) ==
  [count |-> h[a].count,
   item |-> IF h[a].item = Null THEN <<>> ELSE <<h[h[a].item].v>>]

(* -------------------------- immer's drafts ----------------------------- *)

(* createNextState is immer's produce(), imported on line 1.  What follows  *)
(* is its behaviour on plain objects: a draft records writes without        *)
(* touching the base; its set trap ignores a write that stores the value    *)
(* the base already holds while the draft is unmodified; finalizing an      *)
(* unmodified draft yields the base itself; and a recipe that modified its  *)
(* draft and also returns another value makes produce() throw.              *)

\* a draft of the root object at base: nothing copied, nothing modified
createDraft(h, base) ==
  [base |-> base, modified |-> FALSE,
   count |-> h[base].count, item |-> h[base].item,
   childModified |-> FALSE,
   v |-> IF h[base].item = Null THEN 0 ELSE h[h[base].item].v]

\* draft.count = val: a write of the value already there to an unmodified
\* draft is dropped by the set trap; any other write marks the draft changed
SetCount(d, val) ==
  IF ~d.modified /\ d.count = val THEN d
  ELSE [d EXCEPT !.modified = TRUE, !.count = val]

\* draft.item.v = val on the nested draft; marking it changed marks its parent
SetItemV(d, val) ==
  IF ~d.childModified /\ d.v = val THEN d
  ELSE [d EXCEPT !.modified = TRUE, !.childModified = TRUE, !.v = val]

(* --------------------------- case reducers ----------------------------- *)

Returned(d, r) == [draft |-> d, ret |-> r, threw |-> FALSE, error |-> ""]
Threw(d, e) == [draft |-> d, ret |-> Undef, threw |-> TRUE, error |-> e]

\* caseReducer(draft, action) for each function the lookup can yield
CaseReducer(fn, d, action) ==
  CASE fn = "inc"    -> Returned(SetCount(d, d.count + 1), Undef)
    [] fn = "set"    -> Returned(SetCount(d, action.payload), Undef)
    [] fn = "nest"   -> IF d.item = Null
                        THEN Threw(d, "TypeError")
                        ELSE Returned(SetItemV(d, action.payload), Undef)
    [] fn = "reset"  -> Returned(d, NewRet(0))
    [] fn = "mutRet" -> Returned(SetCount(d, action.payload), NewRet(0))
    [] fn = "fail"   -> Threw(SetCount(d, action.payload), "HandlerError")
    \* Object.prototype.toString called with this = undefined
    [] fn = "proto:toString" -> Returned(d, Str("[object Undefined]"))
    \* Object(draft, action) returns its first argument
    [] fn = "proto:constructor" -> Returned(d, DraftRet)
    \* Object.prototype.hasOwnProperty called with this = undefined
    [] fn = "proto:hasOwnProperty" -> Threw(d, "TypeError")

(* --------------------------- createReducer ----------------------------- *)

\* the property key a value used in actionsMap[...] is converted to
ToPropertyKey(type) == IF type = NoType THEN "undefined" ELSE type

\* actionsMap[action.type] on an object literal: own keys, then the prototype
Lookup(map, type) ==
  LET key == ToPropertyKey(type)
  IN  IF key \in DOMAIN map THEN map[key]
      ELSE IF key \in ProtoKeys THEN "proto:" \o key
      ELSE "none"

\* state = initialState, the default parameter
DefaultState(state) == IF state = Undef THEN initialState ELSE state.a

\* a callback that calls the case reducer and forgets what it returns
RecipeDropsReturn(map, d, action) ==
  LET caseReducer == Lookup(map, action.type)
      r == CaseReducer(caseReducer, d, action)
  IN  IF caseReducer # "none"
      THEN [draft |-> r.draft, ret |-> Undef, threw |-> r.threw, error |-> r.error,
            invoked |-> <<[fn |-> caseReducer, base |-> d.base, action |-> action]>>]
      ELSE [draft |-> d, ret |-> Undef, threw |-> FALSE, error |-> "",
            invoked |-> <<>>]

\* a callback that calls the case reducer and always returns the draft
RecipeReturnsDraft(map, d, action) ==
  LET caseReducer == Lookup(map, action.type)
      r == CaseReducer(caseReducer, d, action)
  IN  IF caseReducer # "none"
      THEN [draft |-> r.draft, ret |-> DraftRet, threw |-> r.threw, error |-> r.error,
            invoked |-> <<[fn |-> caseReducer, base |-> d.base, action |-> action]>>]
      ELSE [draft |-> d, ret |-> Undef, threw |-> FALSE, error |-> "",
            invoked |-> <<>>]

\* the callback given to createNextState: the looked-up function, when there
\* is one (any truthy value), is called with the draft and the action
Recipe(map, d, action) ==
  LET caseReducer == Lookup(map, action.type)
      r == CaseReducer(caseReducer, d, action)
  IN  IF caseReducer # "none"
      THEN [draft |-> r.draft, ret |-> r.ret, threw |-> r.threw, error |-> r.error,
            invoked |-> <<[fn |-> caseReducer, base |-> d.base, action |-> action]>>]
      ELSE [draft |-> d, ret |-> Undef, threw |-> FALSE, error |-> "",
            invoked |-> <<>>]

\* what a call of the reducer leaves behind: the heap, and either a result
\* or a thrown error
Outcome(h, outcome, result, error, r) ==
  [heap |-> h, outcome |-> outcome, result |-> result, error |-> error,
   invoked |-> r.invoked]

\* the draft turned into a state: the base itself when nothing was modified,
\* else a copy of the modified objects that shares the unmodified ones
finalize(h, r) ==
  LET d == r.draft
      h2 == IF d.childModified THEN Append(h, Leaf(d.v)) ELSE h
      item == IF d.childModified THEN Len(h2) ELSE d.item
      h3 == Append(h2, Root(d.count, item))
  IN  IF ~d.modified
      THEN Outcome(h, "returned", Ref(d.base), "", r)
      ELSE Outcome(h3, "returned", Ref(Len(h3)), "", r)

\* immer's produce() once the recipe has run: an error thrown by the recipe
\* propagates; a returned value other than undefined and the draft replaces
\* the state, and is an error when the draft was modified as well
processResult(h, r) ==
  IF r.threw THEN Outcome(h, "threw", Undef, r.error, r)
  ELSE IF r.ret # Undef /\ r.ret # DraftRet
  THEN IF r.draft.modified
       THEN Outcome(h, "threw", Undef, "ImmerError", r)
       ELSE IF r.ret.t = "new"
       THEN Outcome(Append(h, Root(r.ret.count, r.ret.item)), "returned",
                    Ref(Len(h) + 1), "", r)
       ELSE Outcome(h, "returned", r.ret, "", r)
  ELSE finalize(h, r)

\* a reducer that hands the state itself to the case reducer: the writes land
\* in the state's own objects
ReducerInPlace(h, map, state, action) ==
  LET base == DefaultState(state)
      r == Recipe(map, createDraft(h, base), action)
      d == r.draft
      h1 == [h EXCEPT ![base] = Root(d.count, d.item)]
      h2 == IF d.item = Null THEN h1 ELSE [h1 EXCEPT ![d.item] = Leaf(d.v)]
  IN  IF r.threw THEN Outcome(h2, "threw", Undef, r.error, r)
      ELSE IF r.ret # Undef /\ r.ret # DraftRet
      THEN IF r.ret.t = "new"
           THEN Outcome(Append(h2, Root(r.ret.count, r.ret.item)), "returned",
                        Ref(Len(h2) + 1), "", r)
           ELSE Outcome(h2, "returned", r.ret, "", r)
      ELSE Outcome(h2, "returned", Ref(base), "", r)

\* a reducer that runs the producer and then returns the state it was given
ReducerReturnsState(h, map, state, action) ==
  LET base == DefaultState(state)
      p == processResult(h, Recipe(map, createDraft(h, base), action))
  IN  IF p.outcome = "threw" THEN p
      ELSE [p EXCEPT !.heap = h, !.result = Ref(base)]

\* a reducer that catches what the case reducer throws and keeps the state
ReducerCatches(h, map, state, action) ==
  LET base == DefaultState(state)
      p == processResult(h, Recipe(map, createDraft(h, base), action))
  IN  IF p.outcome = "threw"
      THEN [p EXCEPT !.outcome = "returned", !.result = Ref(base), !.error = ""]
      ELSE p

\* the function createReducer returns, called with (state, action)
Reducer(h, map, state, action) ==
  LET base == DefaultState(state)
  IN  processResult(h, Recipe(map, createDraft(h, base), action))

(* ---------------------------- the system ------------------------------- *)

\* the states a caller holds: the initial state and every state returned
StateArgs == {Undef} \cup {Ref(a) : a \in DOMAIN snap}

NoCall ==
  [state |-> Undef, action |-> [type |-> "other", payload |-> 0],
   pre |-> <<>>, outcome |-> "none", result |-> Undef, error |-> "",
   invoked |-> <<>>]

\* createReducer(initialState, actionsMap)
Init ==
  /\ \E c \in 0..MaxCount :
       \/ heap = <<Root(c, Null)>>
       \/ heap = <<Root(c, 2)>> \o <<Leaf(0)>>
  /\ actionsMap \in ActionMaps
  /\ call = NoCall
  /\ snap = (initialState :> Deep(heap, initialState))

\* one call reducer(state, action), from its arguments to its return or throw
Dispatch(state, action) ==
  LET base == DefaultState(state)
      r == Reducer(heap, actionsMap, state, action)
      fresh == IF r.outcome = "returned" /\ r.result.t = "ref"
                  /\ r.result.a \notin DOMAIN snap
               THEN (r.result.a :> Deep(r.heap, r.result.a))
               ELSE <<>>
  IN  /\ Len(heap) + 2 <= MaxHeap
      /\ ~(Lookup(actionsMap, action.type) = "inc" /\ heap[base].count >= MaxCount)
      /\ heap' = r.heap
      /\ call' = [state |-> state, action |-> action, pre |-> heap,
                  outcome |-> r.outcome, result |-> r.result, error |-> r.error,
                  invoked |-> r.invoked]
      /\ snap' = snap @@ fresh
      /\ UNCHANGED actionsMap

Next == \E state \in StateArgs, action \in Actions : Dispatch(state, action)

Spec == Init /\ [][Next]_vars

(* ----------------------------- the claims ------------------------------ *)

\* a call of the reducer has been made
Called == call.outcome # "none"
\* the state the last call worked on, and that object before the call
CallBase == IF call.state = Undef THEN initialState ELSE call.state.a
BaseBefore == call.pre[CallBase]
\* the action's kind has a handler registered in the handler map
Registered == call.action.type \in DOMAIN actionsMap
\* the last call returned the very state it worked on
ReturnedInput == call.outcome = "returned" /\ call.result = Ref(CallBase)
\* the last call invoked exactly the case reducer fn
Ran(fn) == Called /\ Len(call.invoked) = 1 /\ call.invoked[1].fn = fn
\* the value NewRet(0) stands for
ResetValue == [count |-> 0, item |-> <<>>]

\* C1: for every state and every action whose kind has no registered handler,
\* the call returns the input state itself (the same reference).
C1_IdentityOnMiss == (Called /\ ~Registered) => ReturnedInput

\* C2: every state value handed out (the initial state, every input, every
\* result) stays deep-equal to the snapshot taken when it was handed out, and
\* no object that existed before a call is changed by the call.
C2_NonMutation ==
  /\ \A a \in DOMAIN snap : Deep(heap, a) = snap[a]
  /\ Called => \A a \in 1..Len(call.pre) : heap[a] = call.pre[a]

\* C2 witness: the state was undefined, a registered handler edited the draft
\* of the initial state, and a new state came back.
C2_Witness ==
  /\ Ran("set") /\ call.state = Undef
  /\ call.outcome = "returned" /\ call.result # Ref(initialState)
  /\ call.action.payload # BaseBefore.count

\* C3 as stated: a handler that writes fields of the draft and returns nothing
\* yields a new reference holding the written values, the untouched fields
\* reference-equal to the input's.
C3_Original ==
  (call.outcome = "returned" /\ (Ran("inc") \/ Ran("set") \/ Ran("nest")))
    => /\ call.result.t = "ref"
       /\ call.result # Ref(CallBase)
       /\ Ran("inc") => heap[call.result.a].count = BaseBefore.count + 1
       /\ Ran("set") => heap[call.result.a].count = call.action.payload
       /\ Ran("nest") => heap[heap[call.result.a].item].v = call.action.payload
       /\ Ran("nest") => heap[call.result.a].count = BaseBefore.count
       /\ ~Ran("nest") => heap[call.result.a].item = BaseBefore.item

\* the handler of the last call wrote a value other than the one the field held
WroteChange ==
  \/ Ran("inc")
  \/ Ran("set") /\ call.action.payload # BaseBefore.count
  \/ Ran("nest") /\ BaseBefore.item # Null
                 /\ call.action.payload # call.pre[BaseBefore.item].v

\* C3 amended: the result holds the written values and its untouched fields
\* are reference-equal to the input's; it is a new reference exactly when some
\* write changed a value, and the input state itself when every write stored
\* the value already there.
C3_EditReconciliation ==
  (call.outcome = "returned" /\ (Ran("inc") \/ Ran("set") \/ Ran("nest")))
    => /\ call.result.t = "ref"
       /\ (call.result # Ref(CallBase)) <=> WroteChange
       /\ Ran("inc") => heap[call.result.a].count = BaseBefore.count + 1
       /\ Ran("set") => heap[call.result.a].count = call.action.payload
       /\ Ran("nest") => heap[heap[call.result.a].item].v = call.action.payload
       /\ Ran("nest") => heap[call.result.a].count = BaseBefore.count
       /\ Ran("nest") => (heap[call.result.a].item # BaseBefore.item) <=> WroteChange
       /\ ~Ran("nest") => heap[call.result.a].item = BaseBefore.item

\* C3 witness: a handler changed the nested item of a state passed in and
\* returned nothing; the result is a new state.
C3_Witness ==
  /\ Ran("nest") /\ call.state # Undef /\ call.outcome = "returned"
  /\ WroteChange /\ call.result # Ref(CallBase)

\* C4: a call with state undefined gives what the same call with initialState
\* gives: on a miss the initial state itself, and otherwise the handler gets a
\* draft of the initial state.
C4_Initialization ==
  (Called /\ call.state = Undef)
    => LET r == Reducer(call.pre, actionsMap, Ref(initialState), call.action)
       IN  /\ call.outcome = r.outcome /\ call.result = r.result
           /\ call.error = r.error /\ heap = r.heap
           /\ \A i \in 1..Len(call.invoked) : call.invoked[i].base = initialState
           /\ ~Registered => call.outcome = "returned"
                             /\ call.result = Ref(initialState)

\* C5: a handler that leaves the draft alone and returns a value v makes the
\* call return v (by value), whatever the input state.
C5_PureReplacement ==
  Ran("reset")
    => /\ call.outcome = "returned" /\ call.result.t = "ref"
       /\ Deep(heap, call.result.a) = ResetValue

\* C5 witness: the replacing handler ran on a passed-in state that differs
\* from the value it returns.
C5_Witness ==
  /\ Ran("reset") /\ call.state # Undef
  /\ Deep(call.pre, CallBase) # ResetValue

C7_HandlerThrows ==
  /\ Ran("fail") => /\ call.outcome = "threw" /\ call.error = "HandlerError"
                    /\ call.result = Undef /\ heap = call.pre
  /\ (Ran("nest") /\ BaseBefore.item = Null)
       => /\ call.outcome = "threw" /\ call.error = "TypeError"
          /\ call.result = Undef /\ heap = call.pre

\* C7 witness: the handler edited the draft and then threw.
C7_Witness ==
  Ran("fail") /\ call.action.payload # BaseBefore.count /\ call.outcome = "threw"

\* C8: an action whose kind is a property every object inherits, and for which
\* no handler is registered, invokes no function and returns the input state.
C8_OwnKeysOnly ==
  (Called /\ call.action.type \in ProtoKeys /\ ~Registered)
    => call.invoked = <<>> /\ ReturnedInput

\* C9: an action without a type invokes no handler, raises nothing and returns
\* the input state, whatever keys the handler map has.
C9_MissingType ==
  (Called /\ call.action.type = NoType)
    => call.invoked = <<>> /\ ReturnedInput

\* C10: a call whose kind has a registered handler invokes that handler alone,
\* once, with a draft of the current state and the action passed in; a call
\* whose kind has none invokes nothing.
C10_ExactlyOneHandler ==
  Called
    => IF Registered
       THEN call.invoked = <<[fn |-> actionsMap[call.action.type],
                              base |-> CallBase, action |-> call.action]>>
       ELSE call.invoked = <<>>

====
